---- MODULE Spec2Model ----
(***************************************************************************)
(* A model of pkg/preprocessing/chat_completions/cgo_functions.c: the C    *)
(* bridge through which a Go host drives an embedded CPython runtime.      *)
(*                                                                         *)
(* The state is the file's globals (the three cached PyObject pointers,    *)
(* the flags, the two PyThread locks), the part of the CPython runtime the *)
(* functions touch (Py_IsInitialized, the GIL, the references the bridge   *)
(* holds on each object) and, per host thread, the position inside the     *)
(* function it is executing with that function's locals.                   *)
(*                                                                         *)
(* Each C function is a chain of steps, one per group of source lines      *)
(* between two points where another thread may interleave.                 *)
(***************************************************************************)
EXTENDS Integers, Sequences, FiniteSets, TLC

\* ------------------------------------------------------------------------
\* Bounds of the model
\* ------------------------------------------------------------------------

\* Number of host threads.
NumThreads == 2

\* The host issues a further operation while fewer than MaxLeak references
\* on any one object have been leaked, and fewer than MaxLeak released
\* without being held.
MaxLeak == 1

\* Host operations started in one concurrent behaviour.
MaxConcOps == 3

Threads == 1..NumThreads

\* The thread that issues the operations of a sequential behaviour.
MainThread == CHOOSE t \in Threads : \A u \in Threads : t <= u

\* ------------------------------------------------------------------------
\* Values
\* ------------------------------------------------------------------------

\* Process ids: getpid() of the process and of a forked child.
Pids == {101, 102}

\* The objects of the embedded module that a cached pointer can point to.
\* "junk_render" / "junk_lookup" are module attributes that exist under the
\* entry point's name but are not callable.
Objects == {"mod", "render_fn", "lookup_fn", "junk_render", "junk_lookup"}

\* What the module offers at the time of one Py_InitChatTemplateModule call.
Envs == {"ok", "import_fail", "dict_fail", "render_missing",
         "render_not_callable", "lookup_missing", "lookup_not_callable"}

\* What the module offers at the time of one Py_ClearCaches call: a
\* clear_caches that returns a str, none (or one that is not callable), one
\* that raises, one that returns an object that is not a str.
ClearEnvs == {"ok", "clear_missing", "clear_raises", "clear_not_str"}

\* A NULL char pointer (no C string holds a zero byte).
NullText == <<0>>

\* The request texts the host passes in sequential use: NULL, the empty
\* string, two valid UTF-8 strings ("A", e-acute) and a truncated UTF-8
\* sequence.
Texts == {NullText, <<>>, <<65>>, <<195, 169>>, <<195>>}

\* The request texts of concurrent Calls: valid UTF-8 strings, enough for
\* every thread to pass one of its own.
ConcTexts == {<<65>>, <<195, 169>>, <<65, 65>>, <<65, 195, 169>>}

\* A NULL PyObject pointer held in a local.
PyNull == <<-1>>

HostOps == {"Initialize", "Finalize", "InitCache", "CallRender", "CallLookup",
            "Clear", "Cleanup", "Reinitialize"}

Calls == {"CallRender", "CallLookup"}

VARIABLES
    \* the globals of cgo_functions.c
    g_chat_template_module,
    g_render_jinja_template_func,
    g_get_model_chat_template_func,
    g_initialized,
    g_python_initialized,
    g_process_initialized,
    g_finalized,
    g_init_pid,
    g_init_lock,
    g_python_init_lock,
    \* the embedded runtime and the process
    pyLive,        \* Py_IsInitialized()
    startCount,    \* executions of Py_Initialize()
    gil,           \* the thread holding the GIL, 0 when free
    rc,            \* references the bridge holds on each object
    heapCorrupt,   \* an object was released that the bridge did not hold
    crashed,       \* the process has terminated abnormally
    curPid,        \* getpid()
    memFaults,     \* whether allocations may fail in this behaviour
    \* per thread: position and locals
    pc,
    op,            \* the host operation the thread is executing / executed
    arg,           \* json_request
    env,           \* what the module offers to this call
    ret,           \* int return value
    result,        \* char* return value
    slot,          \* which pointer a release loop is at
    py,            \* py_json / args, then py_result
    invoked,       \* whether this call reached PyObject_CallObject
    \* history
    opsStarted,
    prev,          \* the operation the current Call follows
    cycle,         \* progress of a Cleanup / InitCache cycle
    memo           \* one remembered Call made with the cache initialized

globalVars == <<g_chat_template_module, g_render_jinja_template_func,
                g_get_model_chat_template_func, g_initialized,
                g_python_initialized, g_process_initialized, g_finalized,
                g_init_pid, g_init_lock, g_python_init_lock>>

handleVars == <<g_chat_template_module, g_render_jinja_template_func,
                g_get_model_chat_template_func>>

flagVars == <<g_initialized, g_python_initialized, g_process_initialized,
              g_finalized, g_init_pid>>

lockVars == <<g_init_lock, g_python_init_lock>>

runtimeVars == <<pyLive, startCount, gil, rc, heapCorrupt, crashed, curPid,
                 memFaults>>

inputVars == <<op, arg, env>>

histVars == <<opsStarted, prev, memo>>

vars == <<globalVars, runtimeVars, pc, op, arg, env, ret, result, slot, py,
          invoked, opsStarted, prev, cycle, memo>>

\* ------------------------------------------------------------------------
\* Text conversion at the boundary
\* ------------------------------------------------------------------------

RECURSIVE Utf8Decode(_)
\* PyUnicode_FromString: the code points of a UTF-8 C string, PyNull when
\* the bytes are not valid UTF-8.
Utf8Decode(b) ==
    IF b = <<>> THEN <<>>
    ELSE IF Head(b) < 128
         THEN LET rest == Utf8Decode(Tail(b))
              IN  IF rest = PyNull THEN PyNull ELSE <<Head(b)>> \o rest
    ELSE IF Head(b) = 195 /\ Len(b) >= 2 /\ b[2] >= 128 /\ b[2] < 192
         THEN LET rest == Utf8Decode(Tail(Tail(b)))
              IN  IF rest = PyNull THEN PyNull
                  ELSE <<64 + b[2]>> \o rest
    ELSE PyNull

RECURSIVE Utf8Encode(_)
\* PyUnicode_AsUTF8 followed by strdup: the UTF-8 bytes of a str object.
Utf8Encode(u) ==
    IF u = <<>> THEN <<>>
    ELSE IF Head(u) < 128 THEN <<Head(u)>> \o Utf8Encode(Tail(u))
    ELSE <<195, Head(u) - 64>> \o Utf8Encode(Tail(u))

\* The entry point an object is, by the name it is bound to in the module.
EntryTag(h) == IF h = "render_fn" THEN 82 ELSE 76

\* What the embedded module's entry point h yields for the str u: no result
\* (an exception) for the empty text, else a text that depends on the entry
\* point and on the whole input.
EntryPoint(h, u) == IF u = <<>> THEN PyNull ELSE <<EntryTag(h)>> \o u

\* PyObject_CallObject(h, (u,)) on a present pointer: a non-callable object
\* raises TypeError (NULL).
CallObject(h, u) ==
    IF h \in {"render_fn", "lookup_fn"} THEN EntryPoint(h, u) ELSE PyNull

\* PyCallable_Check
PyCallable_Check(h) == h \in {"render_fn", "lookup_fn"}

\* The value a Call with selector o and text x returns when the cache holds
\* the entry points.
Expected(o, x) ==
    LET h == IF o = "CallRender" THEN "render_fn" ELSE "lookup_fn"
        u == IF x = NullText THEN PyNull ELSE Utf8Decode(x)
        r == IF u = PyNull THEN PyNull ELSE EntryPoint(h, u)
    IN  IF r = PyNull THEN NullText ELSE Utf8Encode(r)

\* ------------------------------------------------------------------------
\* Locks, allocation, reference counts
\* ------------------------------------------------------------------------

\* PyThread_allocate_lock / PyTuple_Pack: whether an allocation succeeds.
AllocOutcomes == IF memFaults THEN {TRUE, FALSE} ELSE {TRUE}

\* PyThread_acquire_lock(l, NOWAIT_LOCK) with the result ignored: the lock
\* is locked afterwards, whoever locked it.
AcquireNoWait(l) == "locked"

\* PyThread_release_lock
ReleaseLock(l) == "unlocked"

\* A PyGILState_Ensure that returns without waiting for the GIL.
GilAvailable_Always == TRUE

\* PyGILState_Ensure blocks until the GIL is free.
GilAvailable == gil = 0

\* Py_DECREF(h) for a non-NULL h: one reference fewer; releasing an object
\* the bridge holds no reference on frees or damages it.
DecRef(h) ==
    /\ rc' = [rc EXCEPT ![h] = @ - 1]
    /\ heapCorrupt' = (heapCorrupt \/ rc[h] <= 0)

\* Py_INCREF(h) / a new reference returned by PyImport_ImportModule.
IncRef(h) == rc' = [rc EXCEPT ![h] = @ + 1]

\* ------------------------------------------------------------------------
\* Initial states
\* ------------------------------------------------------------------------

InitState ==
    /\ g_chat_template_module = "NULL"
    /\ g_render_jinja_template_func = "NULL"
    /\ g_get_model_chat_template_func = "NULL"
    /\ g_initialized = FALSE
    /\ g_python_initialized = FALSE
    /\ g_process_initialized = FALSE
    /\ g_finalized = FALSE
    /\ g_init_pid = 0
    /\ g_init_lock = "NULL"
    /\ g_python_init_lock = "NULL"
    /\ pyLive = FALSE
    /\ startCount = 0
    /\ gil = 0
    /\ rc = [o \in Objects |-> 0]
    /\ heapCorrupt = FALSE
    /\ crashed = FALSE
    /\ curPid = 101
    /\ pc = [t \in Threads |-> "idle"]
    /\ op = [t \in Threads |-> "none"]
    /\ arg = [t \in Threads |-> NullText]
    /\ env = [t \in Threads |-> "ok"]
    /\ ret = [t \in Threads |-> 0]
    /\ result = [t \in Threads |-> NullText]
    /\ slot = [t \in Threads |-> 0]
    /\ py = [t \in Threads |-> PyNull]
    /\ invoked = [t \in Threads |-> FALSE]
    /\ opsStarted = 0
    /\ prev = [op |-> "none", ret |-> 0]
    /\ cycle = "none"
    /\ memo = [set |-> FALSE, op |-> "none", arg |-> NullText,
               result |-> NullText]

\* The process after loading, in an environment where allocations succeed.
Init == InitState /\ memFaults = FALSE

\* The same, in an environment where an allocation may fail.
InitFaults == InitState /\ memFaults = TRUE

\* ------------------------------------------------------------------------
\* Returning from a function
\* ------------------------------------------------------------------------

\* Where a thread continues after Py_InitializeGo or
\* Py_InitChatTemplateModule returns: in Py_ReinitializeGo when that is the
\* caller, else back in the host.
ReturnPc(t, callee) ==
    IF op[t] = "Reinitialize"
    THEN IF callee = "Initialize" THEN "reinit_after_init"
         ELSE "reinit_after_cache"
    ELSE "done"

\* The cycle history once Py_InitChatTemplateModule has returned s.
CycleAfterCache(t, s) ==
    IF op[t] = "InitCache"
    THEN IF cycle = "recaching" /\ s = 0 THEN "recached" ELSE "none"
    ELSE cycle

\* return s; from Py_InitializeGo or Py_InitChatTemplateModule
ReturnStatus(t, callee, s) ==
    /\ ret' = [ret EXCEPT ![t] = s]
    /\ pc' = [pc EXCEPT ![t] = ReturnPc(t, callee)]
    /\ cycle' = IF callee = "InitCache" THEN CycleAfterCache(t, s) ELSE cycle

\* Continue inside the same function.
Goto(t, label) ==
    /\ pc' = [pc EXCEPT ![t] = label]
    /\ UNCHANGED <<ret, cycle>>

\* Thread t faults: the process terminates, and with it its memory. Only
\* the operation that faulted, with its inputs, and the number of
\* Py_Initialize executions stay on record.
Crash(t) ==
    /\ crashed' = TRUE
    /\ pc' = [u \in Threads |-> IF u = t THEN "crashed" ELSE "idle"]
    /\ op' = [u \in Threads |-> IF u = t THEN op[t] ELSE "none"]
    /\ arg' = [u \in Threads |-> IF u = t THEN arg[t] ELSE NullText]
    /\ env' = [u \in Threads |-> IF u = t THEN env[t] ELSE "ok"]
    /\ g_chat_template_module' = "NULL"
    /\ g_render_jinja_template_func' = "NULL"
    /\ g_get_model_chat_template_func' = "NULL"
    /\ g_initialized' = FALSE
    /\ g_python_initialized' = FALSE
    /\ g_process_initialized' = FALSE
    /\ g_finalized' = FALSE
    /\ g_init_pid' = 0
    /\ g_init_lock' = "NULL"
    /\ g_python_init_lock' = "NULL"
    /\ pyLive' = FALSE
    /\ startCount' = startCount + (IF pc[t] = "init_start" THEN 1 ELSE 0)
    /\ gil' = 0
    /\ rc' = [o \in Objects |-> 0]
    /\ heapCorrupt' = FALSE
    /\ ret' = [u \in Threads |-> 0]
    /\ result' = [u \in Threads |-> NullText]
    /\ slot' = [u \in Threads |-> 0]
    /\ py' = [u \in Threads |-> PyNull]
    /\ invoked' = [u \in Threads |-> FALSE]
    /\ opsStarted' = 0
    /\ prev' = [op |-> "none", ret |-> 0]
    /\ cycle' = "none"
    /\ memo' = [set |-> FALSE, op |-> "none", arg |-> NullText,
                result |-> NullText]
    /\ UNCHANGED <<curPid, memFaults>>

\* ------------------------------------------------------------------------
\* Py_InitializeGo
\* ------------------------------------------------------------------------

\* A process-level check that adopts the caller's process id.
InitPidAfterCheck_Adopted == curPid

\* lines 43-47: g_init_pid after the comparison with getpid(); both
\* branches only print a message
InitPidAfterCheck == g_init_pid

\* lines 42-49: the process-level check
InitCheckProcess(t) ==
    /\ ~crashed
    /\ pc[t] = "init_check"
    /\ IF g_process_initialized
       THEN /\ g_init_pid' = InitPidAfterCheck
            /\ ReturnStatus(t, "Initialize", 0)
       ELSE /\ UNCHANGED g_init_pid
            /\ Goto(t, "init_lock")
    /\ UNCHANGED <<handleVars, g_initialized, g_python_initialized,
                   g_process_initialized, g_finalized, lockVars, runtimeVars,
                   inputVars, result, slot, py, invoked, histVars>>

\* lines 52-60: allocate the lock on first use, then the non-blocking,
\* unchecked acquire
InitAcquireLock(t) ==
    /\ ~crashed
    /\ pc[t] = "init_lock"
    /\ \E ok \in AllocOutcomes :
          IF g_python_init_lock = "NULL" /\ ~ok
          THEN /\ ReturnStatus(t, "Initialize", -1)
               /\ UNCHANGED g_python_init_lock
          ELSE /\ g_python_init_lock' = AcquireNoWait(g_python_init_lock)
               /\ Goto(t, "init_recheck")
    /\ UNCHANGED <<handleVars, flagVars, g_init_lock, runtimeVars, inputVars,
                   result, slot, py, invoked, histVars>>

\* Py_Initialize without the Py_IsInitialized test.
NeedsRuntimeStart_Unchecked == TRUE

\* line 69: if (!Py_IsInitialized())
NeedsRuntimeStart == ~pyLive

\* lines 63-69: the double check, and whether the runtime has to be started
InitRecheck(t) ==
    /\ ~crashed
    /\ pc[t] = "init_recheck"
    /\ IF g_python_initialized
       THEN /\ g_python_init_lock' = ReleaseLock(g_python_init_lock)
            /\ ReturnStatus(t, "Initialize", 0)
       ELSE /\ UNCHANGED g_python_init_lock
            /\ Goto(t, IF NeedsRuntimeStart THEN "init_start" ELSE "init_set")
    /\ UNCHANGED <<handleVars, flagVars, g_init_lock, runtimeVars, inputVars,
                   result, slot, py, invoked, histVars>>

\* lines 71-77: Py_Initialize, PyEval_InitThreads, PyEval_ReleaseThread.
\* When another thread started the runtime in between, Py_Initialize is a
\* no-op and PyThreadState_Get() finds no thread state: a fatal error.
InitStartRuntime(t) ==
    /\ ~crashed
    /\ pc[t] = "init_start"
    /\ IF pyLive
       THEN Crash(t)
       ELSE /\ startCount' = startCount + 1
            /\ pyLive' = TRUE
            /\ Goto(t, "init_set")
            /\ UNCHANGED <<globalVars, gil, rc, heapCorrupt, crashed, curPid,
                           memFaults, inputVars, result, slot, py, invoked,
                           histVars>>

\* lines 80-85: record the initialization, release the lock, return 0
InitSetFlags(t) ==
    /\ ~crashed
    /\ pc[t] = "init_set"
    /\ g_python_initialized' = TRUE
    /\ g_process_initialized' = TRUE
    /\ g_init_pid' = curPid
    /\ g_python_init_lock' = ReleaseLock(g_python_init_lock)
    /\ ReturnStatus(t, "Initialize", 0)
    /\ UNCHANGED <<handleVars, g_initialized, g_finalized, g_init_lock,
                   runtimeVars, inputVars, result, slot, py, invoked,
                   histVars>>

Py_InitializeGo(t) ==
    \/ InitCheckProcess(t)
    \/ InitAcquireLock(t)
    \/ InitRecheck(t)
    \/ InitStartRuntime(t)
    \/ InitSetFlags(t)

\* ------------------------------------------------------------------------
\* Py_InitChatTemplateModule
\* ------------------------------------------------------------------------

\* PyDict_GetItemString(module_dict, "render_jinja_template")
ResolveRender(e) ==
    IF e = "render_missing" THEN "NULL"
    ELSE IF e = "render_not_callable" THEN "junk_render"
    ELSE "render_fn"

\* PyDict_GetItemString(module_dict, "get_model_chat_template")
ResolveLookup(e) ==
    IF e = "lookup_missing" THEN "NULL"
    ELSE IF e = "lookup_not_callable" THEN "junk_lookup"
    ELSE "lookup_fn"

\* lines 151-159: allocate the lock on first use, then the non-blocking,
\* unchecked acquire
CacheAcquireLock(t) ==
    /\ ~crashed
    /\ pc[t] = "cache_lock"
    /\ \E ok \in AllocOutcomes :
          IF g_init_lock = "NULL" /\ ~ok
          THEN /\ ReturnStatus(t, "InitCache", -1)
               /\ UNCHANGED g_init_lock
          ELSE /\ g_init_lock' = AcquireNoWait(g_init_lock)
               /\ Goto(t, "cache_check")
    /\ UNCHANGED <<handleVars, flagVars, g_python_init_lock, runtimeVars,
                   inputVars, result, slot, py, invoked, histVars>>

\* A Py_InitChatTemplateModule without the test of g_python_initialized.
RuntimeReady_Unchecked == TRUE

\* line 169: if (!g_python_initialized)
RuntimeReady == g_python_initialized

\* lines 162-173: already initialized / runtime not initialized
CacheCheck(t) ==
    /\ ~crashed
    /\ pc[t] = "cache_check"
    /\ IF g_initialized
       THEN /\ g_init_lock' = ReleaseLock(g_init_lock)
            /\ ReturnStatus(t, "InitCache", 0)
       ELSE IF ~RuntimeReady
       THEN /\ g_init_lock' = ReleaseLock(g_init_lock)
            /\ ReturnStatus(t, "InitCache", -1)
       ELSE /\ UNCHANGED g_init_lock
            /\ Goto(t, "cache_gil")
    /\ UNCHANGED <<handleVars, flagVars, g_python_init_lock, runtimeVars,
                   inputVars, result, slot, py, invoked, histVars>>

\* line 176: PyGILState_Ensure
CacheEnsureGil(t) ==
    /\ ~crashed
    /\ pc[t] = "cache_gil"
    /\ GilAvailable
    /\ gil' = t
    /\ Goto(t, "cache_import")
    /\ UNCHANGED <<globalVars, pyLive, startCount, rc, heapCorrupt, crashed,
                   curPid, memFaults, inputVars, result, slot, py, invoked,
                   histVars>>

\* lines 181-188: PyImport_ImportModule straight into the global
CacheImport(t) ==
    /\ ~crashed
    /\ pc[t] = "cache_import"
    /\ IF env[t] = "import_fail"
       THEN /\ g_chat_template_module' = "NULL"
            /\ gil' = 0
            /\ g_init_lock' = ReleaseLock(g_init_lock)
            /\ ReturnStatus(t, "InitCache", -1)
            /\ UNCHANGED rc
       ELSE /\ g_chat_template_module' = "mod"
            /\ IncRef("mod")
            /\ Goto(t, "cache_render")
            /\ UNCHANGED <<gil, g_init_lock>>
    /\ UNCHANGED <<g_render_jinja_template_func,
                   g_get_model_chat_template_func, flagVars,
                   g_python_init_lock, pyLive, startCount, heapCorrupt,
                   crashed, curPid, memFaults, inputVars, result, slot, py,
                   invoked, histVars>>

\* lines 191-207: PyModule_GetDict, then the render entry point straight
\* into the global, retained only when it is callable
CacheResolveRender(t) ==
    /\ ~crashed
    /\ pc[t] = "cache_render"
    /\ IF env[t] = "dict_fail"
       THEN /\ gil' = 0
            /\ g_init_lock' = ReleaseLock(g_init_lock)
            /\ ReturnStatus(t, "InitCache", -1)
            /\ UNCHANGED <<g_render_jinja_template_func, rc>>
       ELSE /\ g_render_jinja_template_func' = ResolveRender(env[t])
            /\ IF PyCallable_Check(ResolveRender(env[t]))
               THEN /\ IncRef(ResolveRender(env[t]))
                    /\ Goto(t, "cache_lookup")
                    /\ UNCHANGED <<gil, g_init_lock>>
               ELSE /\ gil' = 0
                    /\ g_init_lock' = ReleaseLock(g_init_lock)
                    /\ ReturnStatus(t, "InitCache", -1)
                    /\ UNCHANGED rc
    /\ UNCHANGED <<g_chat_template_module, g_get_model_chat_template_func,
                   flagVars, g_python_init_lock, pyLive, startCount,
                   heapCorrupt, crashed, curPid, memFaults, inputVars,
                   result, slot, py, invoked, histVars>>

\* lines 210-220: the lookup entry point straight into the global, retained
\* only when it is callable; then PyGILState_Release
CacheResolveLookup(t) ==
    /\ ~crashed
    /\ pc[t] = "cache_lookup"
    /\ g_get_model_chat_template_func' = ResolveLookup(env[t])
    /\ gil' = 0
    /\ IF PyCallable_Check(ResolveLookup(env[t]))
       THEN /\ IncRef(ResolveLookup(env[t]))
            /\ Goto(t, "cache_set")
            /\ UNCHANGED g_init_lock
       ELSE /\ g_init_lock' = ReleaseLock(g_init_lock)
            /\ ReturnStatus(t, "InitCache", -1)
            /\ UNCHANGED rc
    /\ UNCHANGED <<g_chat_template_module, g_render_jinja_template_func,
                   flagVars, g_python_init_lock, pyLive, startCount,
                   heapCorrupt, crashed, curPid, memFaults, inputVars,
                   result, slot, py, invoked, histVars>>

\* lines 222-224: g_initialized = 1, release the lock, return 0
CacheSetFlag(t) ==
    /\ ~crashed
    /\ pc[t] = "cache_set"
    /\ g_initialized' = TRUE
    /\ g_init_lock' = ReleaseLock(g_init_lock)
    /\ ReturnStatus(t, "InitCache", 0)
    /\ UNCHANGED <<handleVars, g_python_initialized, g_process_initialized,
                   g_finalized, g_init_pid, g_python_init_lock, runtimeVars,
                   inputVars, result, slot, py, invoked, histVars>>

Py_InitChatTemplateModule(t) ==
    \/ CacheAcquireLock(t)
    \/ CacheCheck(t)
    \/ CacheEnsureGil(t)
    \/ CacheImport(t)
    \/ CacheResolveRender(t)
    \/ CacheResolveLookup(t)
    \/ CacheSetFlag(t)

\* ------------------------------------------------------------------------
\* Py_CallRenderJinjaTemplate / Py_CallGetModelChatTemplate
\* ------------------------------------------------------------------------

\* The first Call that returns a result with the cache initialized, made by
\* the only thread in use, is remembered for comparison with later Calls.
MemoAfter(t, r) ==
    IF /\ ~memo.set
       /\ op[t] \in Calls
       /\ g_initialized
       /\ r # NullText
       /\ \A u \in Threads \ {t} : op[u] = "none"
    THEN [set |-> TRUE, op |-> op[t], arg |-> arg[t], result |-> r]
    ELSE memo

\* return r; through the pass-through wrapper (lines 230-239, 304-313)
ReturnResult(t, r) ==
    /\ result' = [result EXCEPT ![t] = r]
    /\ pc' = [pc EXCEPT ![t] = "done"]
    /\ memo' = MemoAfter(t, r)
    /\ UNCHANGED <<ret, cycle>>

\* Continue inside the same Call.
GotoCall(t, label) ==
    /\ Goto(t, label)
    /\ UNCHANGED <<result, memo>>

\* The cached pointer a Call uses.
SelectedHandle(o) ==
    IF o = "CallRender" THEN g_render_jinja_template_func
    ELSE g_get_model_chat_template_func

\* lines 244-253: Py_IsInitialized() and the NULL input check
RenderCheck(t) ==
    /\ ~crashed
    /\ pc[t] = "render_check"
    /\ IF ~pyLive \/ arg[t] = NullText
       THEN ReturnResult(t, NullText)
       ELSE GotoCall(t, "call_gil")
    /\ UNCHANGED <<globalVars, runtimeVars, inputVars, slot, py, invoked,
                   opsStarted, prev>>

\* lines 318-344: g_python_initialized, the cached pointer present and
\* callable, and the NULL input check
LookupCheck(t) ==
    /\ ~crashed
    /\ pc[t] = "lookup_check"
    /\ IF \/ ~g_python_initialized
          \/ g_get_model_chat_template_func = "NULL"
          \/ ~PyCallable_Check(g_get_model_chat_template_func)
          \/ arg[t] = NullText
       THEN ReturnResult(t, NullText)
       ELSE GotoCall(t, "call_gil")
    /\ UNCHANGED <<globalVars, runtimeVars, inputVars, slot, py, invoked,
                   opsStarted, prev>>

\* lines 256, 347: PyGILState_Ensure
CallEnsureGil(t) ==
    /\ ~crashed
    /\ pc[t] = "call_gil"
    /\ GilAvailable
    /\ gil' = t
    /\ GotoCall(t, "call_encode")
    /\ UNCHANGED <<globalVars, pyLive, startCount, rc, heapCorrupt, crashed,
                   curPid, memFaults, inputVars, slot, py, invoked,
                   opsStarted, prev>>

\* lines 258-272, 350-366: PyUnicode_FromString and PyTuple_Pack into the
\* call's own locals
CallEncode(t) ==
    /\ ~crashed
    /\ pc[t] = "call_encode"
    /\ \E ok \in AllocOutcomes :
          IF Utf8Decode(arg[t]) = PyNull \/ ~ok
          THEN /\ gil' = 0
               /\ ReturnResult(t, NullText)
               /\ UNCHANGED py
          ELSE /\ py' = [py EXCEPT ![t] = Utf8Decode(arg[t])]
               /\ GotoCall(t, "call_invoke")
               /\ UNCHANGED gil
    /\ UNCHANGED <<globalVars, pyLive, startCount, rc, heapCorrupt, crashed,
                   curPid, memFaults, inputVars, slot, invoked, opsStarted,
                   prev>>

\* lines 275, 369: PyObject_CallObject on the global pointer as it is now.
\* A NULL pointer is dereferenced: the process faults.
CallInvoke(t) ==
    /\ ~crashed
    /\ pc[t] = "call_invoke"
    /\ IF SelectedHandle(op[t]) = "NULL"
       THEN Crash(t)
       ELSE /\ py' = [py EXCEPT ![t] = CallObject(SelectedHandle(op[t]), py[t])]
            /\ invoked' = [invoked EXCEPT ![t] = TRUE]
            /\ Goto(t, "call_convert")
            /\ UNCHANGED <<globalVars, runtimeVars, inputVars, result, slot,
                           histVars>>

\* lines 278-300, 372-396: PyUnicode_AsUTF8 and strdup of the call's own
\* py_result, PyGILState_Release, return
CallConvert(t) ==
    /\ ~crashed
    /\ pc[t] = "call_convert"
    /\ gil' = 0
    /\ py' = [py EXCEPT ![t] = PyNull]
    /\ ReturnResult(t, IF py[t] = PyNull THEN NullText ELSE Utf8Encode(py[t]))
    /\ UNCHANGED <<globalVars, pyLive, startCount, rc, heapCorrupt, crashed,
                   curPid, memFaults, inputVars, slot, invoked, opsStarted,
                   prev>>

Py_Call(t) ==
    \/ RenderCheck(t)
    \/ LookupCheck(t)
    \/ CallEnsureGil(t)
    \/ CallEncode(t)
    \/ CallInvoke(t)
    \/ CallConvert(t)

\* ------------------------------------------------------------------------
\* Py_ClearCaches
\* ------------------------------------------------------------------------

\* The text clear_caches of the embedded module returns.
ClearCachesText == <<79, 75>>

\* A return path that leaves out PyGILState_Release.
GilAfterRelease_Kept(t) == gil

\* PyGILState_Release by the thread that holds the GIL
GilAfterRelease(t) == IF gil = t THEN 0 ELSE gil

\* lines 401-404: if (!g_initialized) return NULL
ClearCheck(t) ==
    /\ ~crashed
    /\ pc[t] = "clear_check"
    /\ IF ~g_initialized
       THEN ReturnResult(t, NullText)
       ELSE GotoCall(t, "clear_gil")
    /\ UNCHANGED <<globalVars, runtimeVars, inputVars, slot, py, invoked,
                   opsStarted, prev>>

\* line 406: PyGILState_Ensure
ClearEnsureGil(t) ==
    /\ ~crashed
    /\ pc[t] = "clear_gil"
    /\ GilAvailable
    /\ gil' = t
    /\ GotoCall(t, "clear_resolve")
    /\ UNCHANGED <<globalVars, pyLive, startCount, rc, heapCorrupt, crashed,
                   curPid, memFaults, inputVars, slot, py, invoked,
                   opsStarted, prev>>

\* lines 409-414: clear_caches looked up in the dictionary of the cached
\* module (PyModule_GetDict dereferences the pointer: a NULL pointer faults)
ClearResolve(t) ==
    /\ ~crashed
    /\ pc[t] = "clear_resolve"
    /\ IF g_chat_template_module = "NULL"
       THEN Crash(t)
       ELSE /\ IF env[t] = "clear_missing"
               THEN /\ gil' = GilAfterRelease(t)
                    /\ ReturnResult(t, NullText)
               ELSE /\ UNCHANGED gil
                    /\ GotoCall(t, "clear_invoke")
            /\ UNCHANGED <<globalVars, pyLive, startCount, rc, heapCorrupt,
                           crashed, curPid, memFaults, inputVars, slot, py,
                           invoked, opsStarted, prev>>

\* lines 416-422: PyObject_CallObject(clear_caches_func, NULL)
ClearInvoke(t) ==
    /\ ~crashed
    /\ pc[t] = "clear_invoke"
    /\ invoked' = [invoked EXCEPT ![t] = TRUE]
    /\ IF env[t] = "clear_raises"
       THEN /\ gil' = GilAfterRelease(t)
            /\ ReturnResult(t, NullText)
       ELSE /\ UNCHANGED gil
            /\ GotoCall(t, "clear_convert")
    /\ UNCHANGED <<globalVars, pyLive, startCount, rc, heapCorrupt, crashed,
                   curPid, memFaults, inputVars, slot, py, opsStarted, prev>>

\* lines 425-437: PyUnicode_AsUTF8, strdup, PyGILState_Release, return
ClearConvert(t) ==
    /\ ~crashed
    /\ pc[t] = "clear_convert"
    /\ gil' = GilAfterRelease(t)
    /\ ReturnResult(t, IF env[t] = "clear_not_str" THEN NullText
                       ELSE ClearCachesText)
    /\ UNCHANGED <<globalVars, pyLive, startCount, rc, heapCorrupt, crashed,
                   curPid, memFaults, inputVars, slot, py, invoked,
                   opsStarted, prev>>

Py_ClearCaches(t) ==
    \/ ClearCheck(t)
    \/ ClearEnsureGil(t)
    \/ ClearResolve(t)
    \/ ClearInvoke(t)
    \/ ClearConvert(t)

\* ------------------------------------------------------------------------
\* Py_CleanupChatTemplateModule
\* ------------------------------------------------------------------------

\* return; from a void function
ReturnVoid(t) ==
    /\ pc' = [pc EXCEPT ![t] = "done"]
    /\ UNCHANGED <<ret, cycle>>

\* The cached pointers that are not NULL.
HeldHandles ==
    {g_chat_template_module, g_render_jinja_template_func,
     g_get_model_chat_template_func} \ {"NULL"}

\* line 442: if (g_initialized && Py_IsInitialized())
CleanupCheck(t) ==
    /\ ~crashed
    /\ pc[t] = "cleanup_check"
    /\ IF g_initialized /\ pyLive
       THEN Goto(t, "cleanup_gil")
       ELSE ReturnVoid(t)
    /\ UNCHANGED <<globalVars, runtimeVars, inputVars, result, slot, py,
                   invoked, histVars>>

\* line 443: PyGILState_Ensure
CleanupEnsureGil(t) ==
    /\ ~crashed
    /\ pc[t] = "cleanup_gil"
    /\ GilAvailable
    /\ gil' = t
    /\ Goto(t, "cleanup_release")
    /\ UNCHANGED <<globalVars, pyLive, startCount, rc, heapCorrupt, crashed,
                   curPid, memFaults, inputVars, result, slot, py, invoked,
                   histVars>>

\* lines 444-446: Py_XDECREF of the three pointers
CleanupRelease(t) ==
    /\ ~crashed
    /\ pc[t] = "cleanup_release"
    /\ rc' = [o \in Objects |-> IF o \in HeldHandles THEN rc[o] - 1 ELSE rc[o]]
    /\ heapCorrupt' = (heapCorrupt \/ \E o \in HeldHandles : rc[o] <= 0)
    /\ Goto(t, "cleanup_clear")
    /\ UNCHANGED <<globalVars, pyLive, startCount, gil, crashed, curPid,
                   memFaults, inputVars, result, slot, py, invoked, histVars>>

\* A Cleanup that leaves the cache flag as it found it.
InitializedAfterCleanup_Kept == g_initialized

\* line 450: g_initialized = 0
InitializedAfterCleanup == FALSE

\* lines 447-451: the pointers to NULL, g_initialized = 0, PyGILState_Release
CleanupClear(t) ==
    /\ ~crashed
    /\ pc[t] = "cleanup_clear"
    /\ g_render_jinja_template_func' = "NULL"
    /\ g_get_model_chat_template_func' = "NULL"
    /\ g_chat_template_module' = "NULL"
    /\ g_initialized' = InitializedAfterCleanup
    /\ gil' = 0
    /\ ReturnVoid(t)
    /\ UNCHANGED <<g_python_initialized, g_process_initialized, g_finalized,
                   g_init_pid, lockVars, pyLive, startCount, rc, heapCorrupt,
                   crashed, curPid, memFaults, inputVars, result, slot, py,
                   invoked, histVars>>

Py_CleanupChatTemplateModule(t) ==
    \/ CleanupCheck(t)
    \/ CleanupEnsureGil(t)
    \/ CleanupRelease(t)
    \/ CleanupClear(t)

\* ------------------------------------------------------------------------
\* The release loops of Py_FinalizeGo and Py_ReinitializeGo
\* ------------------------------------------------------------------------

\* The pointers in the order both functions release them: render, lookup,
\* module.
SlotHandle(s) ==
    CASE s = 1 -> g_render_jinja_template_func
      [] s = 2 -> g_get_model_chat_template_func
      [] OTHER -> g_chat_template_module

\* if (g_x) { Py_DECREF(g_x); ... : skip a NULL pointer, else drop one
\* reference (with no lock and no GIL held)
ReleaseSlot(t, againPc, clearPc, afterPc) ==
    IF SlotHandle(slot[t]) = "NULL"
    THEN /\ pc' = [pc EXCEPT ![t] = IF slot[t] = 3 THEN afterPc ELSE againPc]
         /\ slot' = [slot EXCEPT ![t] = IF slot[t] = 3 THEN 0 ELSE @ + 1]
         /\ UNCHANGED <<rc, heapCorrupt>>
    ELSE /\ DecRef(SlotHandle(slot[t]))
         /\ pc' = [pc EXCEPT ![t] = clearPc]
         /\ UNCHANGED slot

\* ... g_x = NULL; }
ClearSlot(t, againPc, afterPc) ==
    /\ g_render_jinja_template_func' =
          IF slot[t] = 1 THEN "NULL" ELSE g_render_jinja_template_func
    /\ g_get_model_chat_template_func' =
          IF slot[t] = 2 THEN "NULL" ELSE g_get_model_chat_template_func
    /\ g_chat_template_module' =
          IF slot[t] = 3 THEN "NULL" ELSE g_chat_template_module
    /\ pc' = [pc EXCEPT ![t] = IF slot[t] = 3 THEN afterPc ELSE againPc]
    /\ slot' = [slot EXCEPT ![t] = IF slot[t] = 3 THEN 0 ELSE @ + 1]

\* ------------------------------------------------------------------------
\* Py_FinalizeGo
\* ------------------------------------------------------------------------

\* A Py_FinalizeGo that calls Py_Finalize, as the lifecycle-only variants do.
RuntimeAfterFinalize_ShutDown == FALSE

\* Py_IsInitialized() after Py_FinalizeGo: "Reset state without finalizing
\* Python" - the function never calls Py_Finalize.
RuntimeAfterFinalize == pyLive

\* lines 91-94: if (g_finalized) return
FinalizeCheck(t) ==
    /\ ~crashed
    /\ pc[t] = "fin_check"
    /\ IF g_finalized THEN ReturnVoid(t) ELSE Goto(t, "fin_mark")
    /\ UNCHANGED <<globalVars, runtimeVars, inputVars, result, slot, py,
                   invoked, histVars>>

\* line 97: g_finalized = 1
FinalizeMark(t) ==
    /\ ~crashed
    /\ pc[t] = "fin_mark"
    /\ g_finalized' = TRUE
    /\ slot' = [slot EXCEPT ![t] = 1]
    /\ Goto(t, "fin_release")
    /\ UNCHANGED <<handleVars, g_initialized, g_python_initialized,
                   g_process_initialized, g_init_pid, lockVars, runtimeVars,
                   inputVars, result, py, invoked, histVars>>

\* lines 100-101, 104-105, 108-109
FinalizeRelease(t) ==
    /\ ~crashed
    /\ pc[t] = "fin_release"
    /\ ReleaseSlot(t, "fin_release", "fin_clear", "fin_reset")
    /\ UNCHANGED <<globalVars, pyLive, startCount, gil, crashed, curPid,
                   memFaults, inputVars, ret, result, py, invoked, cycle,
                   histVars>>

\* lines 102, 106, 110
FinalizeClear(t) ==
    /\ ~crashed
    /\ pc[t] = "fin_clear"
    /\ ClearSlot(t, "fin_release", "fin_reset")
    /\ UNCHANGED <<flagVars, lockVars, runtimeVars, inputVars, ret, result,
                   py, invoked, cycle, histVars>>

\* A Py_FinalizeGo that resets the runtime's flags but not the cache's.
InitializedAfterFinalize_Kept == g_initialized

\* line 117: g_initialized = 0
InitializedAfterFinalize == FALSE

\* lines 115-117: the three flags to 0; g_finalized is left as it is
FinalizeReset(t) ==
    /\ ~crashed
    /\ pc[t] = "fin_reset"
    /\ g_python_initialized' = FALSE
    /\ g_process_initialized' = FALSE
    /\ g_initialized' = InitializedAfterFinalize
    /\ pyLive' = RuntimeAfterFinalize
    /\ ReturnVoid(t)
    /\ UNCHANGED <<handleVars, g_finalized, g_init_pid, lockVars, startCount,
                   gil, rc, heapCorrupt, crashed, curPid, memFaults,
                   inputVars, result, slot, py, invoked, histVars>>

Py_FinalizeGo(t) ==
    \/ FinalizeCheck(t)
    \/ FinalizeMark(t)
    \/ FinalizeRelease(t)
    \/ FinalizeClear(t)
    \/ FinalizeReset(t)

\* ------------------------------------------------------------------------
\* Py_ReinitializeGo
\* ------------------------------------------------------------------------

\* lines 458-460: the three flags to 0
ReinitReset(t) ==
    /\ ~crashed
    /\ pc[t] = "reinit_reset"
    /\ g_initialized' = FALSE
    /\ g_python_initialized' = FALSE
    /\ g_process_initialized' = FALSE
    /\ slot' = [slot EXCEPT ![t] = 1]
    /\ Goto(t, "reinit_release")
    /\ UNCHANGED <<handleVars, g_finalized, g_init_pid, lockVars, runtimeVars,
                   inputVars, result, py, invoked, histVars>>

\* lines 463-464, 467-468, 471-472; after the last pointer, line 477 calls
\* Py_InitializeGo
ReinitRelease(t) ==
    /\ ~crashed
    /\ pc[t] = "reinit_release"
    /\ ReleaseSlot(t, "reinit_release", "reinit_clear", "init_check")
    /\ UNCHANGED <<globalVars, pyLive, startCount, gil, crashed, curPid,
                   memFaults, inputVars, ret, result, py, invoked, cycle,
                   histVars>>

\* lines 465, 469, 473
ReinitClear(t) ==
    /\ ~crashed
    /\ pc[t] = "reinit_clear"
    /\ ClearSlot(t, "reinit_release", "init_check")
    /\ UNCHANGED <<flagVars, lockVars, runtimeVars, inputVars, ret, result,
                   py, invoked, cycle, histVars>>

\* A Py_ReinitializeGo that goes on whatever Py_InitializeGo returned.
InitializeFailed_Ignored(s) == FALSE

\* line 478: if (result != 0)
InitializeFailed(s) == s # 0

\* lines 478-483: return Py_InitializeGo's failure, else call
\* Py_InitChatTemplateModule
ReinitAfterInit(t) ==
    /\ ~crashed
    /\ pc[t] = "reinit_after_init"
    /\ pc' = [pc EXCEPT ![t] = IF InitializeFailed(ret[t]) THEN "done"
                                ELSE "cache_lock"]
    /\ UNCHANGED <<globalVars, runtimeVars, inputVars, ret, result, slot, py,
                   invoked, cycle, histVars>>

\* lines 484-489: return Py_InitChatTemplateModule's failure, else 0
ReinitAfterCache(t) ==
    /\ ~crashed
    /\ pc[t] = "reinit_after_cache"
    /\ pc' = [pc EXCEPT ![t] = "done"]
    /\ UNCHANGED <<globalVars, runtimeVars, inputVars, ret, result, slot, py,
                   invoked, cycle, histVars>>

Py_ReinitializeGo(t) ==
    \/ ReinitReset(t)
    \/ ReinitRelease(t)
    \/ ReinitClear(t)
    \/ ReinitAfterInit(t)
    \/ ReinitAfterCache(t)

\* ------------------------------------------------------------------------
\* The process: faults and fork
\* ------------------------------------------------------------------------

\* The steps that read or write a Python object.
ObjectSteps == {"lookup_check", "cache_import", "cache_render",
                "cache_lookup", "call_encode", "call_invoke", "call_convert",
                "clear_resolve", "clear_invoke", "clear_convert",
                "cleanup_release", "fin_release", "reinit_release"}

\* Once an object was released that the bridge did not hold, a step that
\* touches the runtime's objects may fault.
UseAfterFree(t) ==
    /\ ~crashed
    /\ heapCorrupt
    /\ pc[t] \in ObjectSteps
    /\ Crash(t)

Quiet(t) == pc[t] \in {"idle", "done"}

\* fork() of an initialized process: the child carries the parent's memory
\* on under a new process id, and none of its threads has returned from a
\* call yet.
Fork ==
    /\ ~crashed
    /\ \A t \in Threads : Quiet(t)
    /\ g_process_initialized
    /\ curPid = 101
    /\ curPid' = 102
    /\ pc' = [t \in Threads |-> "idle"]
    /\ UNCHANGED <<globalVars, pyLive, startCount, gil, rc, heapCorrupt,
                   crashed, memFaults, inputVars, ret, result, slot, py,
                   invoked, cycle, histVars>>

\* ------------------------------------------------------------------------
\* The host issuing operations
\* ------------------------------------------------------------------------

FirstPc(o) ==
    CASE o = "Initialize" -> "init_check"
      [] o = "Finalize" -> "fin_check"
      [] o = "InitCache" -> "cache_lock"
      [] o = "CallRender" -> "render_check"
      [] o = "CallLookup" -> "lookup_check"
      [] o = "Clear" -> "clear_check"
      [] o = "Cleanup" -> "cleanup_check"
      [] OTHER -> "reinit_reset"

\* The inputs an operation takes: a text for a Call, the module's offer for
\* the operations that resolve it.
InputsOf(o) ==
    IF o = "Clear" THEN {NullText} \X ClearEnvs
    ELSE {<<x, e>> \in Texts \X Envs :
             /\ (o \notin Calls => x = NullText)
             /\ (o \notin {"InitCache", "Reinitialize"} => e = "ok")}

\* The Cleanup / InitCache cycle a new operation continues or breaks.
CycleAtStart(o) ==
    CASE o = "Cleanup" ->
            IF g_initialized /\ g_python_initialized /\ pyLive /\ ~heapCorrupt
            THEN "cleaned" ELSE "none"
      [] o = "InitCache" -> IF cycle = "cleaned" THEN "recaching" ELSE "none"
      [] o \in Calls -> cycle
      [] OTHER -> "none"

\* What a Call follows: the operation completed before it, Calls aside.
PrevAtStart(t, o) ==
    IF o \notin Calls THEN [op |-> "none", ret |-> 0]
    ELSE IF pc[t] = "done" /\ op[t] \notin Calls
         THEN [op |-> op[t], ret |-> ret[t]]
    ELSE prev

\* Thread t enters operation o with text x and module offer e.
StartOp(t, o, x, e) ==
    /\ ~crashed
    /\ Quiet(t)
    /\ op' = [op EXCEPT ![t] = o]
    /\ arg' = [arg EXCEPT ![t] = x]
    /\ env' = [env EXCEPT ![t] = e]
    /\ pc' = [pc EXCEPT ![t] = FirstPc(o)]
    /\ ret' = [ret EXCEPT ![t] = 0]
    /\ result' = [result EXCEPT ![t] = NullText]
    /\ py' = [py EXCEPT ![t] = PyNull]
    /\ invoked' = [invoked EXCEPT ![t] = FALSE]
    /\ prev' = PrevAtStart(t, o)
    /\ cycle' = CycleAtStart(o)
    /\ UNCHANGED <<globalVars, runtimeVars, slot, memo>>

\* The reference counts are within the model's bound.
RefsInBounds ==
    \A o \in Objects :
        /\ rc[o] - (IF o \in HeldHandles THEN 1 ELSE 0) < MaxLeak
        /\ rc[o] > -MaxLeak

\* One host thread issues one operation after another.
SeqStart ==
    /\ RefsInBounds
    /\ \A t \in Threads : Quiet(t)
    /\ \E o \in HostOps : \E in \in InputsOf(o) :
          StartOp(MainThread, o, in[1], in[2])
    /\ UNCHANGED opsStarted

\* Any idle host thread issues an operation.
ConcStart(t) ==
    /\ opsStarted < MaxConcOps
    /\ opsStarted' = opsStarted + 1
    /\ \E o \in HostOps : \E in \in InputsOf(o) : StartOp(t, o, in[1], in[2])

\* The main thread brings the runtime and the cache up.
SetupStart ==
    /\ \A t \in Threads : Quiet(t)
    /\ IF ~g_process_initialized
       THEN StartOp(MainThread, "Initialize", NullText, "ok")
       ELSE /\ ~g_initialized
            /\ StartOp(MainThread, "InitCache", NullText, "ok")
    /\ UNCHANGED opsStarted

\* With the runtime and the cache up, each thread issues one Call, with a
\* text of its own.
CallStart(t) ==
    /\ g_python_initialized
    /\ g_initialized
    /\ op[t] \notin Calls
    /\ \E o \in Calls : \E x \in ConcTexts :
          /\ \A u \in Threads \ {t} : op[u] \in Calls => arg[u] # x
          /\ StartOp(t, o, x, "ok")
    /\ UNCHANGED opsStarted

Step(t) ==
    \/ Py_InitializeGo(t)
    \/ Py_InitChatTemplateModule(t)
    \/ Py_Call(t)
    \/ Py_ClearCaches(t)
    \/ Py_CleanupChatTemplateModule(t)
    \/ Py_FinalizeGo(t)
    \/ Py_ReinitializeGo(t)
    \/ UseAfterFree(t)

\* Sequential use: one operation at a time.
Next ==
    \/ SeqStart
    \/ Fork
    \/ \E t \in Threads : Step(t)

Spec == Init /\ [][Next]_vars

\* Sequential use in an environment where allocations may fail.
SpecFaults == InitFaults /\ [][Next]_vars

\* Concurrent use: every thread may be inside an operation.
NextConc == \E t \in Threads : ConcStart(t) \/ Step(t)

SpecConc == Init /\ [][NextConc]_vars

\* Concurrent Calls against an initialized runtime and cache.
NextCalls ==
    \/ SetupStart
    \/ \E t \in Threads :
          \/ CallStart(t)
          \/ Py_InitializeGo(t)
          \/ Py_InitChatTemplateModule(t)
          \/ Py_Call(t)

SpecCalls == Init /\ [][NextCalls]_vars

\* The operations that use or tear down the cache.
RaceOps == Calls \cup {"Clear", "Cleanup", "Finalize", "Reinitialize"}

\* The main thread brings the runtime and the cache up, before any thread
\* has issued its operation.
RaceSetupStart ==
    /\ opsStarted = 0
    /\ SetupStart

\* With the runtime and the cache up, each thread issues one Call or one
\* teardown operation.
RaceStart(t) ==
    /\ opsStarted > 0 \/ (g_python_initialized /\ g_initialized)
    /\ op[t] \notin RaceOps
    /\ opsStarted' = opsStarted + 1
    /\ \E o \in RaceOps :
          StartOp(t, o, IF o \in Calls THEN <<65>> ELSE NullText, "ok")

\* Calls and teardown operations running side by side.
NextRace ==
    \/ RaceSetupStart
    \/ \E t \in Threads : RaceStart(t) \/ Step(t)

SpecRace == Init /\ [][NextRace]_vars

\* ------------------------------------------------------------------------
\* Properties
\* ------------------------------------------------------------------------

Done(t, o) == pc[t] = "done" /\ op[t] = o

AllPresent ==
    /\ g_chat_template_module # "NULL"
    /\ g_render_jinja_template_func # "NULL"
    /\ g_get_model_chat_template_func # "NULL"

AllAbsent ==
    /\ g_chat_template_module = "NULL"
    /\ g_render_jinja_template_func = "NULL"
    /\ g_get_model_chat_template_func = "NULL"

\* A text both entry points accept.
ValidText(x) == x # NullText /\ Utf8Decode(x) \notin {PyNull, <<>>}

\* The steps between PyGILState_Ensure and PyGILState_Release.
InRuntime(t) ==
    pc[t] \in {"cache_import", "cache_render", "cache_lookup", "call_encode",
               "call_invoke", "call_convert", "clear_resolve", "clear_invoke",
               "clear_convert", "cleanup_release", "cleanup_clear"}

\* The steps between the acquire and the release of g_python_init_lock.
InPythonInitLock(t) == pc[t] \in {"init_recheck", "init_start", "init_set"}

\* C1: in sequential use (allocations succeeding) every Py_InitializeGo call
\* returns 0 and leaves the runtime live and recorded as initialized, and
\* over any sequence of Initialize, InitCache, Call, Cleanup, Finalize and
\* Reinitialize calls Py_Initialize is executed at most once - exactly once
\* when an Initialize has returned.
C1_InitializeOnce ==
    /\ startCount <= 1
    /\ \A t \in Threads :
          Done(t, "Initialize") =>
             /\ ret[t] = 0
             /\ startCount = 1
             /\ pyLive
             /\ g_python_initialized
             /\ g_process_initialized

\* An Initialize has returned after an earlier Finalize had reset the flags:
\* the function ran past both checks again, and the runtime was not
\* restarted.
C1_Witness ==
    \E t \in Threads :
        /\ Done(t, "Initialize")
        /\ g_finalized
        /\ ret[t] = 0
        /\ startCount = 1

\* C2: under concurrent Initialize calls at most one thread is between the
\* acquire and the release of the init lock, and Py_Initialize is executed
\* at most once.
C2_InitMutualExclusion ==
    /\ Cardinality({t \in Threads : InPythonInitLock(t)}) <= 1
    /\ startCount <= 1

\* C3: when Py_InitChatTemplateModule returns failure the cache is not
\* initialized and none of the three pointers is set, and whenever no
\* operation is in progress the three pointers are all set or all NULL.
C3_AllOrNothing ==
    /\ \A t \in Threads :
          Done(t, "InitCache") /\ ret[t] # 0 => ~g_initialized /\ AllAbsent
    /\ (\A t \in Threads : Quiet(t)) => AllPresent \/ AllAbsent

\* C4: a Call that follows a failed InitCache returns no result, and a Call
\* with a valid text that follows a successful InitCache returns a result,
\* for both selectors.
C4_CallFollowsInitCache ==
    \A t \in Threads :
        /\ op[t] \in Calls /\ prev.op = "InitCache" /\ prev.ret # 0 =>
              /\ pc[t] # "crashed"
              /\ pc[t] = "done" => result[t] = NullText
        /\ op[t] \in Calls /\ prev.op = "InitCache" /\ prev.ret = 0
              /\ ValidText(arg[t]) /\ pc[t] = "done" => result[t] # NullText

\* C5: a Call with a NULL or an empty text returns no result without
\* invoking the cached callable, without faulting and without keeping the
\* GIL, for both selectors.
C5_RejectsNullAndEmpty ==
    \A t \in Threads :
        op[t] \in Calls /\ arg[t] \in {NullText, <<>>} =>
           /\ pc[t] # "crashed"
           /\ ~invoked[t]
           /\ pc[t] = "done" => result[t] = NullText /\ gil # t

\* C6: with the runtime and the cache initialized, the concurrent Calls of
\* the threads, each with a text of its own, each return the value the
\* selected entry point yields for that thread's text, so that K threads end
\* with K results; and at most one thread is between PyGILState_Ensure and
\* PyGILState_Release.
C6_ConcurrentCalls ==
    /\ Cardinality({t \in Threads : InRuntime(t)}) <= 1
    /\ \A t \in Threads : InRuntime(t) => gil = t
    /\ \A t \in Threads :
          pc[t] = "done" /\ op[t] \in Calls =>
             /\ result[t] # NullText
             /\ result[t] = Expected(op[t], arg[t])

\* Every thread has completed its Call, each with a different text.
C6_Witness ==
    /\ \A t \in Threads : pc[t] = "done" /\ op[t] \in Calls
    /\ \A t, u \in Threads : t # u => arg[t] # arg[u]

\* C7: starting from an initialized runtime and cache, after Cleanup and an
\* InitCache that succeeds (once or any number of times over), a Call
\* returns the result a Call with the same selector and text returned
\* before the Cleanup.
C7_CleanupThenReuse ==
    \A t \in Threads :
        /\ pc[t] = "done"
        /\ op[t] \in Calls
        /\ cycle = "recached"
        /\ memo.set
        /\ memo.op = op[t]
        /\ memo.arg = arg[t]
        => result[t] = memo.result

\* A Call after Cleanup and InitCache has returned the remembered result of
\* the same Call made before the Cleanup.
C7_Witness ==
    \E t \in Threads :
        /\ pc[t] = "done"
        /\ op[t] \in Calls
        /\ cycle = "recached"
        /\ memo.set
        /\ memo.op = op[t]
        /\ memo.arg = arg[t]
        /\ result[t] = memo.result
        /\ result[t] # NullText

\* C8: a Reinitialize for which the module resolves runs to its return
\* without faulting, returns 0 and leaves the runtime and the cache
\* initialized with the three pointers set; a Call with a valid text that
\* follows it returns a result.
C8_ReinitializeRecovers ==
    \A t \in Threads :
        /\ op[t] = "Reinitialize" /\ env[t] = "ok" =>
              /\ pc[t] # "crashed"
              /\ pc[t] = "done" =>
                    /\ ret[t] = 0
                    /\ g_python_initialized
                    /\ g_initialized
                    /\ AllPresent
        /\ op[t] \in Calls /\ prev.op = "Reinitialize" /\ prev.ret = 0
              /\ ValidText(arg[t]) =>
              /\ pc[t] # "crashed"
              /\ pc[t] = "done" => result[t] # NullText

\* C9: whenever Py_FinalizeGo has returned the three pointers are NULL and
\* runtimeInitialized, cacheInitialized and finalized are all false.
C9_FinalizeResetsAll ==
    \A t \in Threads :
        Done(t, "Finalize") =>
           /\ AllAbsent
           /\ ~g_python_initialized
           /\ ~g_initialized
           /\ ~g_finalized

\* C10: once the embedded runtime is live, no step of any operation of a
\* running process makes it not live.
C10_RuntimeStaysLive == [][pyLive /\ ~crashed' => pyLive']_vars

\* Finalize has returned, the flags are reset, and the runtime is live.
C10_Witness ==
    \E t \in Threads :
        /\ Done(t, "Finalize")
        /\ ~g_python_initialized
        /\ pyLive

\* What a Call requires of the state: the runtime and the cache initialized
\* and the selected pointer set.
CallReady(o) ==
    /\ g_python_initialized
    /\ g_initialized
    /\ SelectedHandle(o) # "NULL"

\* C11: a Call issued when the runtime or the cache is not initialized, or
\* when the selected pointer is NULL, never reaches PyObject_CallObject: it
\* invokes nothing and returns no result.
C11_CallNeedsReadyCache ==
    \A t \in Threads :
        op[t] \in Calls /\ ~crashed /\ ~CallReady(op[t]) =>
           /\ pc[t] # "call_invoke"
           /\ ~invoked[t]
           /\ pc[t] = "done" => result[t] = NullText

\* The steps between the acquire and the release of g_init_lock.
InCacheInitLock(t) ==
    pc[t] \in {"cache_check", "cache_gil", "cache_import", "cache_render",
               "cache_lookup", "cache_set"}

\* The steps that assign a flag or one of the three cached pointers.
WritesState(t) ==
    pc[t] \in {"init_set", "cache_import", "cache_render", "cache_lookup",
               "cache_set", "cleanup_clear", "fin_mark", "fin_clear",
               "fin_reset", "reinit_reset", "reinit_clear"}

\* C12: a thread that is about to assign a flag or a cached pointer holds
\* the GIL or one of the two init locks.
C12_WritesUnderLock ==
    \A t \in Threads :
        WritesState(t) =>
            gil = t \/ InPythonInitLock(t) \/ InCacheInitLock(t)

\* The steps of Py_FinalizeGo after its g_finalized test.
InFinalizeBody(t) ==
    pc[t] \in {"fin_mark", "fin_release", "fin_clear", "fin_reset"}

\* C13: of the threads that call Py_FinalizeGo concurrently at most one gets
\* past the g_finalized test, and while only Finalize calls have followed
\* the setup no cached pointer is released more often than it was retained.
C13_FinalizeReleasesOnce ==
    /\ Cardinality({t \in Threads : InFinalizeBody(t)}) <= 1
    /\ (\A t \in Threads :
           op[t] \in {"none", "Initialize", "InitCache", "Finalize"})
          => \A o \in Objects : rc[o] >= 0

\* The steps of Py_InitChatTemplateModule after its two tests: the import,
\* the resolution and the retaining of the entry points.
InCacheResolve(t) ==
    pc[t] \in {"cache_gil", "cache_import", "cache_render", "cache_lookup",
               "cache_set"}

\* C14: of the threads that call Py_InitChatTemplateModule concurrently at
\* most one is between the acquire and the release of g_init_lock, and at
\* most one performs the import-resolve-retain sequence.
C14_InitCacheOnce ==
    /\ Cardinality({t \in Threads : InCacheInitLock(t)}) <= 1
    /\ Cardinality({t \in Threads : InCacheResolve(t)}) <= 1

\* The steps of a Call between its tests and the return of
\* PyObject_CallObject.
CallUsesHandle(t) ==
    op[t] \in Calls /\ pc[t] \in {"call_gil", "call_encode", "call_invoke"}

\* C15: while Cleanup, Finalize or Reinitialize run on other threads, the
\* pointer a lookup Call has tested (lines 325-333) stays set and retained
\* until the Call has invoked it.
C15_CallHandleStaysRetained ==
    \A t \in Threads :
        CallUsesHandle(t) /\ op[t] = "CallLookup" =>
           /\ SelectedHandle(op[t]) # "NULL"
           /\ rc[SelectedHandle(op[t])] >= 1

\* C16: whenever Py_CleanupChatTemplateModule has returned, the three
\* cached pointers are NULL, no reference is held on any object and the
\* cache is not initialized.
C16_CleanupLeavesCacheEmpty ==
    \A t \in Threads :
        Done(t, "Cleanup") =>
           /\ AllAbsent
           /\ ~g_initialized
           /\ \A o \in Objects : rc[o] = 0

\* C17: Py_ReinitializeGo enters Py_InitializeGo with the flags reset and
\* the three pointers NULL; it enters Py_InitChatTemplateModule only after
\* Py_InitializeGo returned 0; and when it returns, a status of 0 means the
\* runtime and the cache are initialized, a failure of Py_InitializeGo has
\* left the cache untouched, and a failure of Py_InitChatTemplateModule has
\* left the runtime initialized and the cache not initialized.
C17_ReinitializeFirstFailure ==
    \A t \in Threads :
        op[t] = "Reinitialize" =>
           /\ pc[t] = "init_check" =>
                 /\ ~g_initialized
                 /\ ~g_python_initialized
                 /\ ~g_process_initialized
                 /\ AllAbsent
           /\ pc[t] = "cache_lock" \/ InCacheInitLock(t) =>
                 /\ ret[t] = 0
                 /\ g_python_initialized
           /\ pc[t] = "reinit_after_cache" =>
                 /\ g_python_initialized
                 /\ ret[t] # 0 => ~g_initialized
           /\ pc[t] = "done" =>
                 /\ ret[t] = 0 => g_python_initialized /\ g_initialized
                 /\ ret[t] # 0 => ~g_initialized
                 /\ ret[t] # 0 /\ ~g_python_initialized => AllAbsent

\* Py_ReinitializeGo has returned the failure of Py_InitializeGo.
C17_Witness ==
    \E t \in Threads :
        /\ Done(t, "Reinitialize")
        /\ ret[t] # 0
        /\ ~g_python_initialized
        /\ AllAbsent

\* C18: a Py_InitChatTemplateModule call made while g_python_initialized is
\* false never reaches the import, and when it has returned, its status is
\* -1, the cache is not initialized, the three pointers are NULL and
\* g_init_lock is not locked; a call made while
\* g_initialized is true returns 0 from its first test, with the lock
\* released and the flags, the pointers and the references as they were.
C18_InitCachePreconditions ==
    /\ [](\A t \in Threads :
            /\ op[t] = "InitCache" /\ InCacheResolve(t) => g_python_initialized
            /\ Done(t, "InitCache") /\ ~g_python_initialized =>
                  /\ ret[t] = -1
                  /\ ~g_initialized
                  /\ AllAbsent
                  /\ g_init_lock # "locked")
    /\ [][\A t \in Threads :
            pc[t] = "cache_check" /\ pc'[t] # "cache_check" /\ g_initialized
               /\ ~crashed' =>
               /\ ret'[t] = 0
               /\ pc'[t] = ReturnPc(t, "InitCache")
               /\ g_init_lock' = "unlocked"
               /\ UNCHANGED <<handleVars, flagVars, rc>>]_vars

\* Py_InitChatTemplateModule has returned -1 after Py_FinalizeGo had reset
\* g_python_initialized.
C18_Witness ==
    \E t \in Threads :
        /\ Done(t, "InitCache")
        /\ ~g_python_initialized
        /\ g_finalized
        /\ ret[t] = -1

\* C19: a Py_InitializeGo call made while g_python_initialized is true
\* returns 0 from its first test and changes no global, does not start the
\* runtime and touches no reference, whether or not g_init_pid is the
\* caller's process id; in a forked child g_init_pid stays the parent's.
C19_InitializeLeavesStateAlone ==
    [][\A t \in Threads :
         pc[t] = "init_check" /\ pc'[t] # "init_check"
            /\ g_python_initialized /\ ~crashed' =>
            /\ ret'[t] = 0
            /\ pc'[t] = ReturnPc(t, "Initialize")
            /\ UNCHANGED <<globalVars, pyLive, startCount, gil, rc>>]_vars

\* Py_InitializeGo has returned 0 in a forked child, g_init_pid still being
\* the parent's process id.
C19_Witness ==
    \E t \in Threads :
        /\ Done(t, "Initialize")
        /\ ret[t] = 0
        /\ g_python_initialized
        /\ g_init_pid # curPid

\* C20: a thread that has returned from an operation does not hold the GIL;
\* when no operation is in progress the GIL is free and neither init lock is
\* locked; and a Call or Clear returns a result only if it invoked its
\* callable - for a Call, the result is the invoked callable's value for the
\* Call's own text.
C20_LocksReleasedOnReturn ==
    /\ \A t \in Threads : Quiet(t) => gil # t
    /\ (\A t \in Threads : Quiet(t)) =>
          /\ gil = 0
          /\ g_init_lock # "locked"
          /\ g_python_init_lock # "locked"
    /\ \A t \in Threads :
          pc[t] = "done" /\ result[t] # NullText =>
             /\ op[t] \in Calls \cup {"Clear"}
             /\ invoked[t]
             /\ op[t] \in Calls =>
                   /\ SelectedHandle(op[t]) # "NULL"
                   /\ result[t] =
                         Utf8Encode(CallObject(SelectedHandle(op[t]),
                                               Utf8Decode(arg[t])))

\* Py_ClearCaches has returned no result from one of its failure paths
\* inside the GIL section, and the GIL is free.
C20_Witness ==
    \E t \in Threads :
        /\ Done(t, "Clear")
        /\ g_initialized
        /\ env[t] # "ok"
        /\ result[t] = NullText
        /\ gil = 0

\* ------------------------------------------------------------------------

\* C21: in sequential use no object is released more often than it was
\* retained: for every object a cached pointer can point to, the retains
\* taken by Py_InitChatTemplateModule (the import's new reference and the
\* two Py_INCREF) minus the releases made by Py_CleanupChatTemplateModule,
\* Py_FinalizeGo and Py_ReinitializeGo is never negative.
C21_NoReleaseWithoutRetain == \A o \in Objects : rc[o] >= 0

\* C22: in sequential use, whenever no operation is in progress and
\* g_initialized is true, g_python_initialized is true and none of the
\* three cached pointers is NULL.
C22_InitializedImpliesReady ==
    (\A t \in Threads : Quiet(t)) /\ g_initialized =>
        g_python_initialized /\ AllPresent

\* Py_InitChatTemplateModule has succeeded after an earlier Py_FinalizeGo
\* tore the state down, and the cache is initialized.
C22_Witness ==
    /\ Done(MainThread, "InitCache")
    /\ ret[MainThread] = 0
    /\ g_finalized
    /\ g_initialized
    /\ ~crashed

====
